---- MODULE Spec2Model ----
(***************************************************************************)
(* The JSON-RPC tool server of src/main.py: API-key check, method dispatch *)
(* by table lookup, parameter validation, the four tool handlers and the   *)
(* external calls they make (news API, LLM, file system, SMTP).            *)
(*                                                                         *)
(* Strings are sequences of tokens (a token is an indivisible piece of     *)
(* text; ".", "@" and " " are tokens of their own), so that startswith,    *)
(* split, strip, join and f-string formatting are computed, not assumed.   *)
(***************************************************************************)
EXTENDS Integers, Sequences, FiniteSets, Bags, TLC

VARIABLES
  MCP_API_KEY,     \* the configured key (main.py:17), fixed after start-up
  client,          \* TRUE iff an OpenAI client was built (main.py:23)
  tools_impl,      \* the module-level dict TOOLS_IMPL
  tools_models,    \* the module-level dict TOOLS_MODELS
  tools_metadata,  \* the module-level dict TOOLS_METADATA
  started,         \* the number of requests received so far
  waiting,         \* bag of the handle_jsonrpc coroutines suspended in
                   \* await request.json(): the header each came with
  answered,        \* history: bag of the requests answered, each with what it
                   \* came with, its response, the handler invocations (calls)
                   \* and the calls the handler made (ev)
  files,           \* the file system: file name -> content
  written          \* history: file name -> the text of the last write to it

vars == <<MCP_API_KEY, client, tools_impl, tools_models, tools_metadata,
          started, waiting, answered, files, written>>

-----------------------------------------------------------------------------
(* Bounds *)

\* the number of requests a run receives
NumReqs == 2

-----------------------------------------------------------------------------
(* JSON / Python values *)

EmptyObj == [k \in {} |-> 0]

JStr(toks) == [t |-> "str", s |-> toks, n |-> 0, items |-> <<>>, o |-> EmptyObj]
JInt(k) == [t |-> "int", s |-> <<>>, n |-> k, items |-> <<>>, o |-> EmptyObj]
JNull == [t |-> "null", s |-> <<>>, n |-> 0, items |-> <<>>, o |-> EmptyObj]
JBool(b) == [t |-> "bool", s |-> <<>>, n |-> IF b THEN 1 ELSE 0, items |-> <<>>, o |-> EmptyObj]
JList(xs) == [t |-> "list", s |-> <<>>, n |-> 0, items |-> xs, o |-> EmptyObj]
JObj(f) == [t |-> "obj", s |-> <<>>, n |-> 0, items |-> <<>>, o |-> f]

\* Python truthiness, as used by `not x`
Truthy(v) ==
  CASE v.t = "null" -> FALSE
    [] v.t = "str" -> v.s # <<>>
    [] v.t = "int" -> v.n # 0
    [] v.t = "bool" -> v.n # 0
    [] v.t = "list" -> v.items # <<>>
    [] v.t = "obj" -> DOMAIN v.o # {}

\* dict.get(key, default)
Get(d, k, default) == IF k \in DOMAIN d THEN d[k] ELSE default

\* str.startswith
StartsWith(s, prefix) ==
  /\ Len(s) >= Len(prefix)
  /\ SubSeq(s, 1, Len(prefix)) = prefix

\* index of the first occurrence of tok in s, 0 when there is none
FirstIndex(s, tok) ==
  IF \E i \in 1..Len(s) : s[i] = tok
  THEN CHOOSE i \in 1..Len(s) : s[i] = tok /\ \A j \in 1..(i - 1) : s[j] # tok
  ELSE 0

\* s.split(sep): every separator splits (kept to the first two pieces)
RECURSIVE SplitEvery(_, _)
SplitEvery(s, sep) ==
  LET i == FirstIndex(s, sep)
  IN IF i = 0 THEN <<s>>
     ELSE <<SubSeq(s, 1, i - 1), SplitEvery(SubSeq(s, i + 1, Len(s)), sep)[1]>>

\* s.split(sep, 1)
Split1(s, sep) ==
  LET i == FirstIndex(s, sep)
  IN IF i = 0 THEN <<s>> ELSE <<SubSeq(s, 1, i - 1), SubSeq(s, i + 1, Len(s))>>

IsSpace(tok) == tok \in {" ", "\n"}

RECURSIVE LStrip(_)
LStrip(s) == IF s # <<>> /\ IsSpace(Head(s)) THEN LStrip(Tail(s)) ELSE s

RECURSIVE RStrip(_)
RStrip(s) ==
  IF s # <<>> /\ IsSpace(s[Len(s)]) THEN RStrip(SubSeq(s, 1, Len(s) - 1)) ELSE s

\* str.strip
Strip(s) == RStrip(LStrip(s))

\* sep.join(parts)
RECURSIVE Join(_, _)
Join(sep, parts) ==
  IF parts = <<>> THEN <<>>
  ELSE IF Len(parts) = 1 THEN parts[1]
  ELSE parts[1] \o sep \o Join(sep, Tail(parts))

\* the text an f-string puts for a value
ToStr(v) == IF v.t = "str" THEN v.s ELSE <<"None">>

-----------------------------------------------------------------------------
(* Parameter models (pydantic) *)

\* a validated model: ok, the offending fields, and model.dict()
Valid(d) == [ok |-> TRUE, errors |-> {}, dict |-> d]
Invalid(errs) == [ok |-> FALSE, errors |-> errs, dict |-> EmptyObj]

\* a required field of type str
BadStr(o, k) == k \notin DOMAIN o \/ o[k].t # "str"

\* an optional field of type int
BadOptInt(o, k) == k \in DOMAIN o /\ o[k].t # "int"

\* EmailStr: one "@" with text on both sides
IsEmail(s) ==
  LET i == FirstIndex(s, "@")
  IN /\ i > 1
     /\ i < Len(s)
     /\ \A j \in (i + 1)..Len(s) : s[j] # "@"

BadEmail(o, k) == BadStr(o, k) \/ ~IsEmail(o[k].s)

FetchNewsParams(o) ==
  LET errs == {k \in {"topic", "date"} : BadStr(o, k)}
                \cup {k \in {"count"} : BadOptInt(o, k)}
  IN IF errs # {} THEN Invalid(errs)
     ELSE Valid([topic |-> o["topic"], date |-> o["date"],
                 count |-> Get(o, "count", JInt(5))])

SendEmailParams(o) ==
  LET errs == {k \in {"to_email"} : BadEmail(o, k)}
                \cup {k \in {"subject", "body"} : BadStr(o, k)}
  IN IF errs # {} THEN Invalid(errs)
     ELSE Valid([to_email |-> o["to_email"], subject |-> o["subject"],
                 body |-> o["body"]])

\* articles: List[Dict[str, Any]]
SummarizeParams(o) ==
  LET bad == \/ "articles" \notin DOMAIN o
             \/ o["articles"].t # "list"
             \/ \E i \in 1..Len(o["articles"].items) : o["articles"].items[i].t # "obj"
  IN IF bad THEN Invalid({"articles"}) ELSE Valid([articles |-> o["articles"]])

TopicCount(v) ==
  IF v.t # "obj" THEN Invalid({"topics"})
  ELSE LET errs == {k \in {"topic"} : BadStr(v.o, k)}
                     \cup {k \in {"count"} : BadOptInt(v.o, k)}
       IN IF errs # {} THEN Invalid(errs)
          ELSE Valid([topic |-> v.o["topic"], count |-> Get(v.o, "count", JInt(5))])

SmartNewsEmailParams(o) ==
  LET badTopics == \/ "topics" \notin DOMAIN o
                   \/ o["topics"].t # "list"
                   \/ \E i \in 1..Len(o["topics"].items) : ~TopicCount(o["topics"].items[i]).ok
      errs == {k \in {"date"} : BadStr(o, k)}
                \cup {k \in {"email"} : BadEmail(o, k)}
                \cup {k \in {"topics"} : badTopics}
  IN IF errs # {} THEN Invalid(errs)
     ELSE Valid([date |-> o["date"], email |-> o["email"],
                 topics |-> JList([i \in 1..Len(o["topics"].items) |->
                                     JObj(TopicCount(o["topics"].items[i]).dict)])])

\* TOOLS_MODELS[tool_name](**params)
Validate(model, o) ==
  CASE model = "FetchNewsParams" -> FetchNewsParams(o)
    [] model = "SendEmailParams" -> SendEmailParams(o)
    [] model = "SummarizeParams" -> SummarizeParams(o)
    [] model = "SmartNewsEmailParams" -> SmartNewsEmailParams(o)

-----------------------------------------------------------------------------
(* Tool handlers.  Each yields the set of its possible runs: the calls it  *)
(* made, in order (ev: the external calls, and for smart_news_email its    *)
(* call of the summarizer), whether it returned (ok) and what (result) or  *)
(* which exception it raised (exc), and the file system it leaves (fs).    *)

Run(e, ok, result, exc, fs) ==
  [ev |-> e, ok |-> ok, result |-> result, exc |-> exc, fs |-> fs]

\* an article the news API has for a topic
Article(topic) ==
  JObj([title |-> JStr(ToStr(topic) \o <<" today">>),
        url |-> JStr(<<"http://news/">> \o ToStr(topic))])

\* what the news API may answer for a topic: the "articles" of r.json()
Found(topic) == {<<>>, <<Article(topic)>>}

\* a fetch that tries once more after a failure
fetch_news_impl_retry(topic, date, count) ==
  LET call(ok, out) == [op |-> "fetch", ok |-> ok, q |-> topic, date |-> date,
                        pageSize |-> count, out |-> out]
  IN {Run(<<call(FALSE, <<>>), call(FALSE, <<>>)>>, FALSE, JNull, "HTTPError", files)}
       \cup {Run(<<call(TRUE, articles)>>, TRUE, JList(articles), "", files)
               : articles \in Found(topic)}
       \cup {Run(<<call(FALSE, <<>>), call(TRUE, articles)>>, TRUE, JList(articles), "", files)
               : articles \in Found(topic)}

fetch_news_impl(topic, date, count) ==
  LET call(ok, out) == [op |-> "fetch", ok |-> ok, q |-> topic, date |-> date,
                        pageSize |-> count, out |-> out]
  IN {Run(<<call(FALSE, <<>>)>>, FALSE, JNull, "HTTPError", files)}
       \cup {Run(<<call(TRUE, articles)>>, TRUE, JList(articles), "", files)
               : articles \in Found(topic)}

NoNews == <<"<p>No news found for the selected topics/date.</p>">>
KeyMissing == <<"OpenAI API key missing">>

FormatArticle(a) ==
  <<"Title: ">> \o ToStr(Get(a.o, "title", JNull))
    \o <<"\nDate: ">> \o ToStr(Get(a.o, "publishedAt", JNull))
    \o <<"\nContent: ">> \o ToStr(Get(a.o, "content", JNull))
    \o <<"\nLink: ">> \o ToStr(Get(a.o, "url", JNull))

\* what the LLM may answer to a prompt: resp.choices[0].message.content
Completions(news_text) == {<<" ", "<h2>">> \o news_text \o <<"</h2>", "\n">>}

\* a summarizer that looks for the client before it looks at the articles
summarize_articles_impl_client_first(articles) ==
  IF ~client THEN {Run(<<>>, TRUE, JStr(KeyMissing), "", files)}
  ELSE IF ~Truthy(articles) THEN {Run(<<>>, TRUE, JStr(NoNews), "", files)}
  ELSE LET news_text == Join(<<"\n\n">>, [i \in 1..Len(articles.items) |->
                                            FormatArticle(articles.items[i])])
           call(ok, out) == [op |-> "llm", ok |-> ok, prompt |-> news_text, out |-> out]
       IN {Run(<<call(FALSE, <<>>)>>, FALSE, JNull, "APIError", files)}
            \cup {Run(<<call(TRUE, c)>>, TRUE, JStr(Strip(c)), "", files)
                    : c \in Completions(news_text)}

summarize_articles_impl(articles) ==
  IF ~Truthy(articles) THEN {Run(<<>>, TRUE, JStr(NoNews), "", files)}
  ELSE LET news_text == Join(<<"\n\n">>, [i \in 1..Len(articles.items) |->
                                            FormatArticle(articles.items[i])])
           call(ok, out) == [op |-> "llm", ok |-> ok, prompt |-> news_text, out |-> out]
       IN IF ~client THEN {Run(<<>>, TRUE, JStr(KeyMissing), "", files)}
          ELSE {Run(<<call(FALSE, <<>>)>>, FALSE, JNull, "APIError", files)}
                 \cup {Run(<<call(TRUE, c)>>, TRUE, JStr(Strip(c)), "", files)
                         : c \in Completions(news_text)}

send_email_impl(to_email, subject, body) ==
  LET connect(ok) == [op |-> "smtp_connect", ok |-> ok]
      login(ok) == [op |-> "smtp_login", ok |-> ok]
      sendmail(ok) == [op |-> "sendmail", ok |-> ok, to |-> to_email,
                       subject |-> subject, body |-> body]
      quit(ok) == [op |-> "smtp_quit", ok |-> ok]
      T == TRUE
      F == FALSE
  IN {Run(<<connect(F)>>, F, JNull, "SMTPConnectError", files),
      Run(<<connect(T), login(F)>>, F, JNull, "SMTPAuthenticationError", files),
      Run(<<connect(T), login(T), sendmail(F)>>, F, JNull, "SMTPException", files),
      Run(<<connect(T), login(T), sendmail(T), quit(F)>>, F, JNull,
          "SMTPServerDisconnected", files),
      Run(<<connect(T), login(T), sendmail(T), quit(T)>>, T,
          JObj([sent |-> JBool(TRUE)]), "", files)}

\* a write that leaves the file system alone
WriteFile_skipped(fs, filename, content) == fs

\* open(filename, "a"): the text is added to what the file holds
WriteFile_append(fs, filename, content) ==
  (filename :> (Get(fs, filename, <<>>) \o content)) @@ fs

\* open(filename, "w") followed by f.write(content)
WriteFile(fs, filename, content) == (filename :> content) @@ fs

\* a loop that puts each topic's articles in front of the earlier ones
RECURSIVE FetchAll_front(_, _, _, _, _)
FetchAll_front(topics, date, i, e, all_articles) ==
  IF i > Len(topics) THEN {Run(e, TRUE, JList(all_articles), "", files)}
  ELSE LET t == topics[i].o
       IN UNION {IF f.ok
                 THEN FetchAll_front(topics, date, i + 1, e \o f.ev,
                                     f.result.items \o all_articles)
                 ELSE {Run(e \o f.ev, FALSE, JNull, f.exc, files)}
                   : f \in fetch_news_impl(t["topic"], date, Get(t, "count", JInt(5)))}

\* the for loop of smart_news_email_impl from topic i on
RECURSIVE FetchAll(_, _, _, _, _)
FetchAll(topics, date, i, e, all_articles) ==
  IF i > Len(topics) THEN {Run(e, TRUE, JList(all_articles), "", files)}
  ELSE LET t == topics[i].o
       IN UNION {IF f.ok
                 THEN FetchAll(topics, date, i + 1, e \o f.ev, all_articles \o f.result.items)
                 ELSE {Run(e \o f.ev, FALSE, JNull, f.exc, files)}
                   : f \in fetch_news_impl(t["topic"], date, Get(t, "count", JInt(5)))}

smart_news_email_impl(date, email, topics) ==
  LET filename == <<"news_summary_">> \o ToStr(date) \o <<".html">>
      subject == JStr(<<"Daily News Summary - ">> \o ToStr(date))
      write(ok, text) == [op |-> "write", ok |-> ok, name |-> filename, content |-> text]
      Send(e, summary_html, fs) ==
        {IF m.ok
         THEN Run(e \o m.ev, TRUE, JObj([status |-> JStr(<<"success">>),
                                         file |-> JStr(filename)]), "", fs)
         ELSE Run(e \o m.ev, FALSE, JNull, m.exc, fs)
           : m \in send_email_impl(email, subject, summary_html)}
      Save(e, summary_html) ==
        {Run(e \o <<write(FALSE, summary_html.s)>>, FALSE, JNull, "OSError", files)}
          \cup Send(e \o <<write(TRUE, summary_html.s)>>, summary_html,
                    WriteFile(files, filename, summary_html.s))
      summarize(list) == [op |-> "summarize", ok |-> TRUE, articles |-> list.items]
      Summarize(e, all_articles) ==
        UNION {IF s.ok THEN Save(e \o <<summarize(all_articles)>> \o s.ev, s.result)
               ELSE {Run(e \o <<summarize(all_articles)>> \o s.ev, FALSE, JNull, s.exc, files)}
                 : s \in summarize_articles_impl(all_articles)}
  IN UNION {IF f.ok THEN Summarize(f.ev, f.result) ELSE {f}
              : f \in FetchAll(topics.items, date, 1, <<>>, <<>>)}

\* TOOLS_IMPL[tool_name](**kwargs)
Invoke(impl, kw) ==
  CASE impl = "fetch_news_impl" -> fetch_news_impl(kw["topic"], kw["date"], kw["count"])
    [] impl = "summarize_articles_impl" -> summarize_articles_impl(kw["articles"])
    [] impl = "send_email_impl" -> send_email_impl(kw["to_email"], kw["subject"], kw["body"])
    [] impl = "smart_news_email_impl" ->
         smart_news_email_impl(kw["date"], kw["email"], kw["topics"])

-----------------------------------------------------------------------------
(* The registry *)

TOOLS_IMPL ==
  (<<"fetch_news">> :> "fetch_news_impl")
    @@ (<<"summarize_articles">> :> "summarize_articles_impl")
    @@ (<<"send_email">> :> "send_email_impl")
    @@ (<<"smart_news_email">> :> "smart_news_email_impl")

\* a registry whose model table misses a tool
TOOLS_MODELS_short ==
  (<<"fetch_news">> :> "FetchNewsParams")
    @@ (<<"summarize_articles">> :> "SummarizeParams")
    @@ (<<"send_email">> :> "SendEmailParams")

TOOLS_MODELS ==
  (<<"fetch_news">> :> "FetchNewsParams")
    @@ (<<"summarize_articles">> :> "SummarizeParams")
    @@ (<<"send_email">> :> "SendEmailParams")
    @@ (<<"smart_news_email">> :> "SmartNewsEmailParams")

TOOLS_METADATA ==
  (<<"fetch_news">> :> [name |-> <<"fetch_news">>, params_schema |-> "FetchNewsParams"])
    @@ (<<"summarize_articles">> :>
          [name |-> <<"summarize_articles">>, params_schema |-> "SummarizeParams"])
    @@ (<<"send_email">> :> [name |-> <<"send_email">>, params_schema |-> "SendEmailParams"])
    @@ (<<"smart_news_email">> :>
          [name |-> <<"smart_news_email">>, params_schema |-> "SmartNewsEmailParams"])

-----------------------------------------------------------------------------
(* Endpoints *)

NoResp == [http |-> 0, body |-> EmptyObj]
Unauthorized == [http |-> 401, body |-> [detail |-> "Unauthorized"]]
\* an exception that leaves the endpoint function: the framework answers 500
InternalServerError == [http |-> 500, body |-> EmptyObj]

\* a key check that only asks for some key
check_api_key_any(x_mcp_api_key) == Truthy(x_mcp_api_key)

\* TRUE iff check_api_key returns without raising
check_api_key(x_mcp_api_key) ==
  ~(~Truthy(x_mcp_api_key) \/ x_mcp_api_key # MCP_API_KEY)

\* what the dispatcher leaves behind: the response, the handler invocations,
\* the external calls and the file system
Out(response, invoked, e, fs) ==
  [resp |-> response, calls |-> invoked, ev |-> e, fs |-> fs]

ErrorEnvelope(req_id, err) ==
  [http |-> 200, body |-> [jsonrpc |-> "2.0", id |-> req_id, error |-> err]]

ResultEnvelope(req_id, result) ==
  [http |-> 200, body |-> [jsonrpc |-> "2.0", id |-> req_id, result |-> result]]

\* handle_jsonrpc from the moment request.json() has returned payload
handle_jsonrpc(payload) ==
  IF payload.t # "obj" THEN {Out(InternalServerError, <<>>, <<>>, files)}
  ELSE
    LET req_id == Get(payload.o, "id", JNull)
        method == Get(payload.o, "method", JNull)
        params == Get(payload.o, "params", JObj(EmptyObj))
        Fail(code, message) ==
          {Out(ErrorEnvelope(req_id, [code |-> code, message |-> message]), <<>>, <<>>, files)}
        FailWith(code, message, data) ==
          ErrorEnvelope(req_id, [code |-> code, message |-> message, data |-> data])
    IN IF ~Truthy(method) THEN Fail(-32601, "Method not found")
       ELSE IF method.t # "str" THEN {Out(InternalServerError, <<>>, <<>>, files)}
       ELSE IF ~StartsWith(method.s, <<"tool", ".">>) THEN Fail(-32601, "Method not found")
       ELSE
         LET tool_name == Split1(method.s, ".")[2]
         IN IF tool_name \notin DOMAIN tools_impl THEN Fail(-32601, "Tool not found")
            ELSE IF tool_name \notin DOMAIN tools_models
              THEN {Out(FailWith(-32000, "Server error", "KeyError"), <<>>, <<>>, files)}
            ELSE IF params.t # "obj"
              THEN {Out(FailWith(-32000, "Server error", "TypeError"), <<>>, <<>>, files)}
            ELSE
              LET model == Validate(tools_models[tool_name], params.o)
                  call == [tool |-> tools_impl[tool_name], kwargs |-> model.dict]
              IN IF ~model.ok
                 THEN {Out(FailWith(-32602, "Invalid params", model.errors), <<>>, <<>>, files)}
                 ELSE {IF r.ok
                       THEN Out(ResultEnvelope(req_id, r.result), <<call>>, r.ev, r.fs)
                       ELSE Out(FailWith(-32000, "Server error", r.exc), <<call>>, r.ev, r.fs)
                         : r \in Invoke(tools_impl[tool_name], model.dict)}

-----------------------------------------------------------------------------
(* Inputs *)

Secret == JStr(<<"secret">>)

\* values of the MCP_API_KEY environment variable
KeySettings == {JNull, JStr(<<>>), Secret}

\* values of the X-MCP-API-KEY header (JNull: no header)
Headers == {JNull, JStr(<<>>), Secret, JStr(<<"guess">>)}

D1 == JStr(<<"2025-10-02">>)
D2 == JStr(<<"2025-10-03">>)
Mail == JStr(<<"aida", "@", "example.com">>)
NotMail == JStr(<<"aida.example.com">>)
Sports == JStr(<<"Sports">>)
Crime == JStr(<<"Crime">>)
Given == JObj([title |-> JStr(<<"Given">>), content |-> JStr(<<"text">>)])

Call(id, name, params) ==
  JObj([id |-> id, method |-> JStr(<<"tool", ".", name>>), params |-> params])

Methods ==
  {JNull, JStr(<<>>), JInt(0), JInt(7), JStr(<<"fetch_news">>), JStr(<<"tool">>),
   JStr(<<"tool", ".">>), JStr(<<"toolx", ".", "fetch_news">>),
   JStr(<<"tool", ".", "nope">>), JStr(<<"tool", ".", "fetch_news", ".", "x">>)}

FetchNewsInputs ==
  {JNull, JList(<<>>),
   JObj([topic |-> Sports, date |-> D1]),
   JObj([topic |-> Sports, date |-> D1, count |-> JInt(2), lang |-> JStr(<<"en">>)]),
   JObj([topic |-> Sports, date |-> D1, count |-> JStr(<<"many">>)]),
   JObj([topic |-> Sports])}

SummarizeInputs ==
  {JObj([articles |-> JList(<<>>)]),
   JObj([articles |-> JList(<<Given>>)]),
   JObj([articles |-> JStr(<<"Given">>)])}

SendEmailInputs ==
  {JObj([to_email |-> Mail, subject |-> JStr(<<"Hi">>), body |-> JStr(<<"<p>", "x", "</p>">>)]),
   JObj([to_email |-> NotMail, subject |-> JStr(<<"Hi">>), body |-> JStr(<<"x">>)]),
   JObj([to_email |-> Mail, subject |-> JStr(<<"Hi">>)])}

SmartNewsEmailInputs ==
  {JObj([date |-> D1, email |-> Mail,
         topics |-> JList(<<JObj([topic |-> Sports, count |-> JInt(2)]),
                            JObj([topic |-> Crime])>>)]),
   JObj([date |-> D2, email |-> Mail, topics |-> JList(<<>>)]),
   JObj([date |-> D1, email |-> NotMail, topics |-> JList(<<JObj([topic |-> Crime])>>)]),
   JObj([date |-> D1, email |-> Mail, topics |-> JList(<<JObj([count |-> JInt(2)])>>)])}

\* JSON bodies of POST /jsonrpc
Payloads ==
  {JList(<<>>), JObj(EmptyObj), JObj([id |-> JInt(1)])}
    \cup {JObj([id |-> JInt(1), method |-> m]) : m \in Methods}
    \cup {Call(JInt(1), "fetch_news", p) : p \in FetchNewsInputs}
    \cup {Call(JInt(2), "summarize_articles", p) : p \in SummarizeInputs}
    \cup {Call(JInt(3), "send_email", p) : p \in SendEmailInputs}
    \cup {Call(JInt(4), "smart_news_email", p) : p \in SmartNewsEmailInputs}
    \cup {JObj([method |-> JStr(<<"tool", ".", "summarize_articles">>)])}

-----------------------------------------------------------------------------
(* The server *)

Init ==
  /\ MCP_API_KEY \in {k \in KeySettings : Truthy(k)}
  /\ client \in BOOLEAN
  /\ tools_impl = TOOLS_IMPL
  /\ tools_models = TOOLS_MODELS
  /\ tools_metadata = TOOLS_METADATA
  /\ started = 0
  /\ waiting = EmptyBag
  /\ answered = EmptyBag
  /\ files = EmptyObj
  /\ written = EmptyObj

\* a request that has been answered
Answer(endpoint, header, body_read, payload, response, invoked, e) ==
  [endpoint |-> endpoint, header |-> header, body_read |-> body_read,
   payload |-> payload, resp |-> response, calls |-> invoked, ev |-> e]

\* the last successful write of a trace to each file it wrote
LastWrites(e) ==
  LET W == {i \in 1..Len(e) : e[i].op = "write" /\ e[i].ok}
      last(f) == CHOOSE i \in W : e[i].name = f /\ \A k \in W : e[k].name = f => k <= i
  IN [f \in {e[i].name : i \in W} |-> e[last(f)].content]

\* GET /mcp/registry
get_registry ==
  /\ started < NumReqs
  /\ started' = started + 1
  /\ \E x \in Headers :
       answered' = answered (+) SetToBag({
         Answer("GET /mcp/registry", x, FALSE, JNull,
                IF check_api_key(x)
                THEN [http |-> 200, body |-> [tools |-> tools_metadata]]
                ELSE Unauthorized,
                <<>>, <<>>)})
  /\ UNCHANGED <<MCP_API_KEY, client, tools_impl, tools_models, tools_metadata,
                 waiting, files, written>>

\* POST /jsonrpc up to the await of request.json()
handle_jsonrpc_begin ==
  /\ started < NumReqs
  /\ started' = started + 1
  /\ \E x \in Headers :
       IF check_api_key(x)
       THEN /\ waiting' = waiting (+) SetToBag({x})
            /\ UNCHANGED answered
       ELSE /\ answered' = answered (+) SetToBag({
                 Answer("POST /jsonrpc", x, FALSE, JNull, Unauthorized, <<>>, <<>>)})
            /\ UNCHANGED waiting
  /\ UNCHANGED <<MCP_API_KEY, client, tools_impl, tools_models, tools_metadata,
                 files, written>>

\* POST /jsonrpc from the return of request.json() to the response
handle_jsonrpc_run ==
  /\ \E x \in BagToSet(waiting) :
       \E payload \in Payloads :
         \E out \in handle_jsonrpc(payload) :
           /\ waiting' = waiting (-) SetToBag({x})
           /\ answered' = answered (+) SetToBag({
                Answer("POST /jsonrpc", x, TRUE, payload, out.resp, out.calls, out.ev)})
           /\ files' = out.fs
           /\ written' = LastWrites(out.ev) @@ written
  /\ UNCHANGED <<MCP_API_KEY, client, tools_impl, tools_models, tools_metadata, started>>

Next ==
  \/ get_registry
  \/ handle_jsonrpc_begin
  \/ handle_jsonrpc_run

Spec == Init /\ [][Next]_vars

-----------------------------------------------------------------------------
(* Vocabulary of the properties *)

\* the requests answered so far
Answered == BagToSet(answered)

\* r is a POST /jsonrpc request that passed the key check and was answered
Rpc(r) == r.endpoint = "POST /jsonrpc" /\ r.body_read

Field(r, k, default) == Get(r.payload.o, k, default)
Method(r) == Field(r, "method", JNull)
Params(r) == Field(r, "params", JObj(EmptyObj))

\* the registered tools the method of r names: "tool." followed by the name
Named(r) == {n \in DOMAIN TOOLS_IMPL : Method(r) = JStr(<<"tool", ".">> \o n)}
Tool(r) == CHOOSE n \in Named(r) : TRUE

IsEnvelope(r) ==
  /\ r.resp.http = 200
  /\ {"jsonrpc", "id"} \subseteq DOMAIN r.resp.body
  /\ r.resp.body.jsonrpc = "2.0"
  /\ r.resp.body.id = Field(r, "id", JNull)
  /\ ("result" \in DOMAIN r.resp.body) # ("error" \in DOMAIN r.resp.body)

IsError(r, code, message) ==
  /\ r.resp.http = 200
  /\ "error" \in DOMAIN r.resp.body
  /\ r.resp.body.error.code = code
  /\ r.resp.body.error.message = message

IsResult(r) == r.resp.http = 200 /\ "result" \in DOMAIN r.resp.body

\* the calls of one kind in a trace, in order
Only(e, op) == SelectSeq(e, LAMBDA x : x.op = op)

\* r invoked the handler impl
Invoked(r, impl) == Rpc(r) /\ r.calls # <<>> /\ r.calls[1].tool = impl

Kw(r) == r.calls[1].kwargs

-----------------------------------------------------------------------------
(* C1: a request whose X-MCP-API-KEY header is absent, empty or different  *)
(* from the configured key is answered 401 before the body is read, with   *)
(* no handler invoked, no registry returned and no external call made; a   *)
(* handler, a body read or a registry answer only ever happens in a        *)
(* request whose header equals the non-empty configured key.               *)

BadHeader(x) == x.t = "null" \/ x.s = <<>> \/ x # MCP_API_KEY

\* C1: a bad or missing key is answered 401 with nothing read, invoked or
\* called; whatever ran or waits for its body came with the configured key
C1_Unauthorized ==
  /\ \A r \in Answered :
       /\ BadHeader(r.header) =>
            /\ r.resp = Unauthorized
            /\ ~r.body_read
            /\ r.calls = <<>>
            /\ r.ev = <<>>
       /\ (r.calls # <<>> \/ r.ev # <<>> \/ r.body_read \/ "tools" \in DOMAIN r.resp.body) =>
            /\ r.header = MCP_API_KEY
            /\ MCP_API_KEY.t = "str"
            /\ MCP_API_KEY.s # <<>>
  /\ \A x \in BagToSet(waiting) : ~BadHeader(x)

\* a wrong key was rejected on POST /jsonrpc while another request ran a handler
C1_Witness ==
  \E r, r2 \in Answered :
    /\ r.endpoint = "POST /jsonrpc"
    /\ r.header = JStr(<<"guess">>)
    /\ r.resp = Unauthorized
    /\ Rpc(r2)
    /\ r2.calls # <<>>

-----------------------------------------------------------------------------
(* C2: for every authenticated request naming a registered tool, params    *)
(* that do not satisfy the tool's parameter model give error -32602        *)
(* "Invalid params" with no handler call, and params that satisfy it give  *)
(* one handler call with exactly the validated, defaults-filled values.    *)

Satisfies(name, params) ==
  params.t = "obj" /\ Validate(TOOLS_MODELS[name], params.o).ok

\* the declared fields of a model, each with the given value or its default
Filled(name, o) ==
  CASE name = <<"fetch_news">> ->
         [topic |-> o["topic"], date |-> o["date"], count |-> Get(o, "count", JInt(5))]
    [] name = <<"summarize_articles">> -> [articles |-> o["articles"]]
    [] name = <<"send_email">> ->
         [to_email |-> o["to_email"], subject |-> o["subject"], body |-> o["body"]]
    [] name = <<"smart_news_email">> ->
         [date |-> o["date"], email |-> o["email"],
          topics |-> JList([i \in 1..Len(o["topics"].items) |->
                     JObj([topic |-> o["topics"].items[i].o["topic"],
                           count |-> Get(o["topics"].items[i].o, "count", JInt(5))])])]

C2_Validated(r) ==
  IF Satisfies(Tool(r), Params(r))
  THEN r.calls = <<[tool |-> TOOLS_IMPL[Tool(r)], kwargs |-> Filled(Tool(r), Params(r).o)]>>
  ELSE r.calls = <<>> /\ IsError(r, -32602, "Invalid params")

\* C2: for a request naming a registered tool, params failing the model give
\* -32602 and no handler call; params satisfying it give one call with the
\* validated, defaults-filled values
C2_InvalidParams ==
  \A r \in Answered : (Rpc(r) /\ Named(r) # {}) => C2_Validated(r)

-----------------------------------------------------------------------------
(* C3: every authenticated POST /jsonrpc request, whatever its JSON body,  *)
(* is answered with a JSON-RPC envelope: jsonrpc "2.0", the id of the      *)
(* request, and exactly one of result and error.                           *)

C3_AlwaysEnvelope ==
  \A r \in Answered : Rpc(r) => IsEnvelope(r)

-----------------------------------------------------------------------------
(* C4: for an authenticated request whose method is a string or missing,   *)
(* the handler TOOLS_IMPL[name] is selected iff the method is exactly      *)
(* "tool." + name with name a registry key; a missing or empty method or   *)
(* one not starting with "tool." gives -32601 "Method not found", a        *)
(* "tool."-prefixed method whose remainder is no key gives -32601 "Tool    *)
(* not found", and in both cases no handler is invoked.                    *)

HasToolPrefix(m) == Len(m.s) >= 2 /\ m.s[1] = "tool" /\ m.s[2] = "."

-----------------------------------------------------------------------------
(* C5: TOOLS_IMPL, TOOLS_MODELS and TOOLS_METADATA have the same keys in   *)
(* every state; a registry answer advertises exactly the dispatchable      *)
(* tools, and the lookup of the parameter model never fails.               *)

C5_SameKeys ==
  /\ DOMAIN tools_impl = DOMAIN tools_models
  /\ DOMAIN tools_models = DOMAIN tools_metadata
  /\ tools_impl = TOOLS_IMPL
  /\ \A r \in Answered :
       /\ "tools" \in DOMAIN r.resp.body =>
            DOMAIN r.resp.body.tools = DOMAIN tools_impl
       /\ Rpc(r) =>
            ~(IsError(r, -32000, "Server error") /\ r.resp.body.error.data = "KeyError")

\* the registry was served and every advertised tool has been dispatched to
C5_Witness ==
  /\ \E r \in Answered : "tools" \in DOMAIN r.resp.body
  /\ \E r \in Answered : Invoked(r, "smart_news_email_impl")

-----------------------------------------------------------------------------
(* C6 as stated: every request gets one response and at most one handler   *)
(* invocation, and within smart_news_email each topic is fetched exactly   *)
(* once, the summarizer is called at most once and the e-mail is sent at   *)
(* most once.                                                              *)

Fetches(r) == Only(r.ev, "fetch")
Topics(r) == Kw(r).topics.items

AtMostOnce(r) ==
  \A op \in {"summarize", "llm", "write", "smtp_connect", "smtp_login", "sendmail",
             "smtp_quit"} : Len(Only(r.ev, op)) <= 1

\* every request received is suspended in the body read or has one answer
OneResponse ==
  /\ started = BagCardinality(waiting) + BagCardinality(answered)
  /\ \A r \in Answered : r.resp # NoResp

\* C6 as stated: one response, at most one invocation, every topic of
\* smart_news_email fetched exactly once, summarizer and e-mail at most once
C6_ExactlyOnce ==
  /\ OneResponse
  /\ \A r \in Answered :
       /\ Len(r.calls) <= 1
       /\ AtMostOnce(r)
       /\ Invoked(r, "smart_news_email_impl") =>
            /\ Len(Fetches(r)) = Len(Topics(r))
            /\ \A i \in 1..Len(Fetches(r)) : Fetches(r)[i].q = Topics(r)[i].o["topic"]

(* C6 as amended: one response, at most one handler invocation, nothing    *)
(* is tried again; within smart_news_email the fetches are, in order, the  *)
(* topics up to the first whose fetch fails (all of them when none fails), *)
(* so each topic is fetched at most once.                                  *)

C6_NoRetries ==
  /\ OneResponse
  /\ \A r \in Answered :
       /\ Len(r.calls) <= 1
       /\ AtMostOnce(r)
       /\ Invoked(r, "fetch_news_impl") => Len(Fetches(r)) = 1
       /\ Invoked(r, "smart_news_email_impl") =>
            /\ Len(Fetches(r)) <= Len(Topics(r))
            /\ \A i \in 1..Len(Fetches(r)) : Fetches(r)[i].q = Topics(r)[i].o["topic"]
            /\ \A i \in 1..(Len(Fetches(r)) - 1) : Fetches(r)[i].ok
            /\ (\A i \in 1..Len(Fetches(r)) : Fetches(r)[i].ok) =>
                 Len(Fetches(r)) = Len(Topics(r))

\* the first of two topics failed to fetch: the second was never fetched
C6_Witness ==
  \E r \in Answered :
    /\ Invoked(r, "smart_news_email_impl")
    /\ Len(Topics(r)) = 2
    /\ Len(Fetches(r)) = 1
    /\ ~Fetches(r)[1].ok
    /\ IsError(r, -32000, "Server error")

-----------------------------------------------------------------------------
(* C7: smart_news_email fetches the topics in list order, then summarizes  *)
(* once the concatenation, in topic order, of the fetched articles, then   *)
(* writes news_summary_<date>.html, then sends the e-mail whose body is    *)
(* the text written to the file; it stops at the first failure, a failed   *)
(* fetch leaves nothing summarized, written or sent, and success is        *)
(* returned only after the e-mail was sent.                                *)

Rank(op) ==
  CASE op = "fetch" -> 1
    [] op = "summarize" -> 2
    [] op = "llm" -> 3
    [] op = "write" -> 4
    [] op = "smtp_connect" -> 5
    [] op = "smtp_login" -> 6
    [] op = "sendmail" -> 7
    [] op = "smtp_quit" -> 8

RECURSIVE Concat(_)
Concat(seqs) == IF seqs = <<>> THEN <<>> ELSE Head(seqs) \o Concat(Tail(seqs))

SummaryFile(date) == <<"news_summary_">> \o date.s \o <<".html">>

C7_Steps(r) ==
  LET e == r.ev
      F == Fetches(r)
      n == Len(F)
  IN /\ \A i, j \in 1..Len(e) :
          i < j => \/ Rank(e[i].op) < Rank(e[j].op)
                   \/ e[i].op = "fetch" /\ e[j].op = "fetch"
     /\ \A i \in 1..(Len(e) - 1) : e[i].ok
     /\ n <= Len(Topics(r))
     /\ \A i \in 1..n :
          /\ F[i].q = Topics(r)[i].o["topic"]
          /\ F[i].date = Kw(r).date
          /\ F[i].pageSize = Topics(r)[i].o["count"]
     /\ (\E i \in 1..n : ~F[i].ok) =>
          /\ e = F
          /\ IsError(r, -32000, "Server error")
     /\ (\A i \in 1..n : F[i].ok) =>
          /\ n = Len(Topics(r))
          /\ Len(e) > n
          /\ e[n + 1].op = "summarize"
          /\ e[n + 1].articles = Concat([i \in 1..n |-> F[i].out])
     /\ \A i \in 1..Len(e) :
          /\ e[i].op = "write" => e[i].name = SummaryFile(Kw(r).date)
          /\ e[i].op \in {"smtp_connect", "smtp_login", "sendmail", "smtp_quit"} =>
               \E k \in 1..(i - 1) : e[k].op = "write"
          /\ e[i].op = "sendmail" =>
               /\ e[i].to = Kw(r).email
               /\ \A k \in 1..Len(e) : e[k].op = "write" => e[i].body.s = e[k].content
          /\ e[i].op = "llm" =>
               \A k \in 1..Len(e) : e[k].op = "write" => e[k].content = Strip(e[i].out)
     /\ IsResult(r) =>
          /\ \E i \in 1..Len(e) : e[i].op = "sendmail" /\ e[i].ok
          /\ e[Len(e)].op = "smtp_quit"
          /\ e[Len(e)].ok
          /\ r.resp.body.result = JObj([status |-> JStr(<<"success">>),
                                         file |-> JStr(SummaryFile(Kw(r).date))])

\* C7: every smart_news_email run is fetches in topic order, one summarizer
\* call on their concatenation, the write, then the e-mail of the written text,
\* cut at the first failure
C7_FixedOrder ==
  \A r \in Answered : Invoked(r, "smart_news_email_impl") => C7_Steps(r)

\* both topics had an article, the summary was written and sent
C7_Witness ==
  \E r \in Answered :
    /\ Invoked(r, "smart_news_email_impl")
    /\ IsResult(r)
    /\ Len(Fetches(r)) = 2
    /\ \A i \in 1..2 : Fetches(r)[i].out # <<>>
    /\ Len(Only(r.ev, "llm")) = 1

-----------------------------------------------------------------------------
(* C8: the summarizer makes no LLM call for an empty article list (it      *)
(* returns the "No news found" text, with or without a client) nor for a   *)
(* non-empty list without a client (it returns "OpenAI API key missing"    *)
(* as a result, not an error); smart_news_email writes and mails that text *)
(* as the summary.                                                         *)

C8_Text(articles) == IF articles = <<>> THEN NoNews ELSE KeyMissing

C8_Direct(r) ==
  LET a == Kw(r).articles.items
  IN (a = <<>> \/ ~client) =>
       /\ r.ev = <<>>
       /\ IsResult(r)
       /\ r.resp.body.result = JStr(C8_Text(a))

C8_Smart(r) ==
  LET e == r.ev
  IN \A i \in 1..Len(e) :
       (e[i].op = "summarize" /\ (e[i].articles = <<>> \/ ~client)) =>
         /\ Only(e, "llm") = <<>>
         /\ Len(e) > i
         /\ e[i + 1].op = "write"
         /\ e[i + 1].content = C8_Text(e[i].articles)
         /\ \A j \in 1..Len(e) :
              e[j].op = "sendmail" => e[j].body = JStr(C8_Text(e[i].articles))
         /\ ~IsResult(r) => ~e[Len(e)].ok

\* C8: no LLM call for an empty list or without a client; the fixed text is
\* the result, and smart_news_email writes and mails it
C8_NoLLMCall ==
  \A r \in Answered :
    /\ Invoked(r, "summarize_articles_impl") => C8_Direct(r)
    /\ Invoked(r, "smart_news_email_impl") => C8_Smart(r)

\* without a client, fetched articles led to "OpenAI API key missing" being
\* written, mailed and reported as success
C8_Witness ==
  \E r \in Answered :
    /\ ~client
    /\ Invoked(r, "smart_news_email_impl")
    /\ IsResult(r)
    /\ \E i \in 1..Len(r.ev) : r.ev[i].op = "summarize" /\ r.ev[i].articles # <<>>
    /\ \E j \in 1..Len(r.ev) :
         r.ev[j].op = "sendmail" /\ r.ev[j].ok /\ r.ev[j].body = JStr(KeyMissing)
    /\ files[SummaryFile(Kw(r).date)] = KeyMissing

-----------------------------------------------------------------------------
(* C9 as stated: whenever a tool.smart_news_email request is answered with *)
(* the error -32000 "Server error", the step that answers it leaves every  *)
(* file as it was.                                                         *)

SmartError(r) ==
  /\ Rpc(r)
  /\ Named(r) = {<<"smart_news_email">>}
  /\ IsError(r, -32000, "Server error")

\* r is answered by this step
IsNew(r) == CopiesIn(r, answered') > CopiesIn(r, answered)

\* C9 as stated: a step that answers tool.smart_news_email with error -32000
\* leaves every file as it was
C9_ErrorNoEffect ==
  [][\A r \in BagToSet(answered') : (IsNew(r) /\ SmartError(r)) => files' = files]_vars

(* C9 as amended: an error answer leaves the files as they were only when  *)
(* the failing step comes before the write (a fetch, the LLM call, opening *)
(* the file); when an SMTP step fails the error is answered with the file  *)
(* news_summary_<date>.html written, holding the summary of the request.   *)

C9_Frame(r) ==
  LET e == r.ev
      W == Only(e, "write")
  IN IF W = <<>> \/ ~W[1].ok THEN files' = files
     ELSE /\ e[Len(e)].op \in {"smtp_connect", "smtp_login", "sendmail", "smtp_quit"}
          /\ ~e[Len(e)].ok
          /\ W[1].name = SummaryFile(Params(r).o["date"])
          /\ files' = (W[1].name :> W[1].content) @@ files

\* C9 as amended: an error answer leaves the files alone when the failure
\* precedes the write; after a failed SMTP step the file is written and stays
C9_ErrorAfterWrite ==
  [][\A r \in BagToSet(answered') : (IsNew(r) /\ SmartError(r)) => C9_Frame(r)]_vars

\* the SMTP login failed and the file is there
C9_Witness ==
  \E r \in Answered :
    /\ SmartError(r)
    /\ r.ev[Len(r.ev)].op = "smtp_login"
    /\ ~r.ev[Len(r.ev)].ok
    /\ SummaryFile(Params(r).o["date"]) \in DOMAIN files

-----------------------------------------------------------------------------
(* C10: a summary file always holds, in full, the summary written by the   *)
(* request that wrote it last, never a mix of two, and the e-mail of each  *)
(* request carries the summary that request wrote, also after another      *)
(* request has overwritten the file.                                       *)

GoodWrites(r) == SelectSeq(r.ev, LAMBDA x : x.op = "write" /\ x.ok)

\* C10: each summary file holds in full the text of the last write to it, the
\* summary of one request, and each e-mail carries its own request's summary
C10_WholeSummary ==
  /\ DOMAIN files = DOMAIN written
  /\ \A f \in DOMAIN files :
       /\ files[f] = written[f]
       /\ \E r \in Answered :
            /\ GoodWrites(r) # <<>>
            /\ GoodWrites(r)[1].name = f
            /\ GoodWrites(r)[1].content = files[f]
  /\ \A r \in Answered :
       /\ Len(GoodWrites(r)) <= 1
       /\ \A j \in 1..Len(r.ev) :
            r.ev[j].op = "sendmail" /\ GoodWrites(r) # <<>> =>
              r.ev[j].body.s = GoodWrites(r)[1].content

\* two requests wrote different summaries to one file and mailed them; the
\* file holds one of them in full and the mail of the other differs from it
C10_Witness ==
  \E r1, r2 \in Answered :
    /\ GoodWrites(r1) # <<>>
    /\ GoodWrites(r2) # <<>>
    /\ GoodWrites(r1)[1].name = GoodWrites(r2)[1].name
    /\ GoodWrites(r1)[1].content # GoodWrites(r2)[1].content
    /\ files[GoodWrites(r1)[1].name] = GoodWrites(r2)[1].content
    /\ \E j \in 1..Len(r1.ev) :
         /\ r1.ev[j].op = "sendmail"
         /\ r1.ev[j].ok
         /\ r1.ev[j].body.s = GoodWrites(r1)[1].content
    /\ \E j \in 1..Len(r2.ev) : r2.ev[j].op = "sendmail" /\ r2.ev[j].ok

====
